---- MODULE Spec2Model ----
(***************************************************************************)
(* Model of Epub-AI/generate_icons.py: a script that creates the directory *)
(* assets/icons and writes four book icons, as PNG files drawn with Pillow *)
(* or, when "from PIL import ..." raises ImportError, as SVG files.        *)
(*                                                                         *)
(* Two specifications share the variables:                                 *)
(*   Spec      one run of the script, step by step, with the failures the  *)
(*             environment can inject (OSError, ImportError);              *)
(*   GeomSpec  the two drawing routines create_book_icon / create_svg_icon *)
(*             as pure functions of (size, is_maskable), size drawn from   *)
(*             1..MaxSize.                                                 *)
(***************************************************************************)
EXTENDS Integers, Sequences, FiniteSets, TLC

\* Largest size the geometry specification draws its argument from.
MaxSize == 520

\* Sizes the script passes to the drawing routines.
Size192 == 192
Size512 == 512

VARIABLES
    pc,        \* position of the script
    k,         \* index (1..4) of the icon being generated, 0 before
    dir,       \* assets/icons: "absent", "present", or "file" (a non-directory)
    dirMade,   \* TRUE once os.makedirs has returned
    img,       \* the Image object built by create_book_icon, or NoImage
    written,   \* files completely written, in order of writing
    partial,   \* names of files left truncated by a failed write
    fault,     \* uncaught exception that ended the process, or "none"
    faultAt,   \* <<pc, k>> at the moment of the fault
    raisedAt,  \* step of the try body that raised ImportError, or "none"
    gS,        \* GeomSpec: the size argument
    gM,        \* GeomSpec: the is_maskable argument
    gRaster,   \* GeomSpec: result of create_book_icon(gS, gM), or NoImage
    gSvg       \* GeomSpec: result of create_svg_icon(gS, gM), or NoImage

vars == <<pc, k, dir, dirMade, img, written, partial, fault, faultAt,
          raisedAt, gS, gM, gRaster, gSvg>>

runVars == <<pc, k, dir, dirMade, img, written, partial, fault, faultAt, raisedAt>>
geomVars == <<gS, gM, gRaster, gSvg>>

NoImage == [kind |-> "none"]

(***************************************************************************)
(* int(x * c) for a float literal c and a non-negative integer x.          *)
(* The doubles 0.1, 0.2, 1.3, 0.08, 0.93 lie above the decimal they are    *)
(* written as, 0.5 is exact and 0.3 lies below it by less than half an ulp *)
(* relative error, so for every x in the model's range the rounded product *)
(* truncates to floor(x*num/den).  The double 0.7 lies far enough below    *)
(* 7/10 that the product of a multiple of ten rounds to just under the     *)
(* integer 7x/10 when that integer is in the upper quarter of its binade   *)
(* (90*0.7 = 62.99999999999999), and int() then yields one less.           *)
(***************************************************************************)
IntMul(x, num, den) == (x * num) \div den

RECURSIVE Pow2Floor(_)
Pow2Floor(n) == IF n < 2 THEN 1 ELSE 2 * Pow2Floor(n \div 2)

IntMul07(x) ==
    LET q == (7 * x) \div 10
    IN  IF x % 10 = 0 /\ q > 0 /\ 4 * q > 7 * Pow2Floor(q) THEN q - 1 ELSE q

(***************************************************************************)
(* Pieces of the drawing routines.                                         *)
(***************************************************************************)
\* Padding with the two factors attached to the wrong branches.
PaddingMut(size, is_maskable) ==
    IF is_maskable THEN IntMul(size, 1, 10) ELSE IntMul(size, 2, 10)

\* lines 27-31 and 104
Padding(size, is_maskable) ==
    IF is_maskable THEN IntMul(size, 2, 10) ELSE IntMul(size, 1, 10)

\* lines 42 and 105
BookWidth(size, padding) == size - (padding * 2)

\* lines 43 and 106
BookHeight(book_width) == IntMul(book_width, 13, 10)

\* lines 45 and 108: Python // is floor division, as \div is
BookY(size, book_height) == (size - book_height) \div 2

\* A canvas given the book's aspect ratio instead of a square.
NewImageMut(size) == [width |-> size, height |-> IntMul(size, 13, 10)]

\* line 19: Image.new('RGBA', (size, size), ...)
NewImage(size) == [width |-> size, height |-> size]

\* line 111: <svg width height viewBox>
SvgHeader(size) == [width |-> size, height |-> size, viewBox |-> <<0, 0, size, size>>]

\* A line spacing of 30% of the book height, the fraction the SVG starts at.
LineSpacingMut(book_height) == IntMul(book_height, 3, 10)

\* line 63
LineSpacing(book_height) == IntMul(book_height, 1, 10)

\* lines 64-71: the page lines the loop draws, in order
PageLines(book_x, book_y, book_width, book_height, page_offset, line_spacing) ==
    LET y_pos(i) == book_y + (i + 2) * line_spacing
        drawn(i) == y_pos(i) < book_y + book_height - line_spacing
        line(i)  == [x1 |-> book_x + page_offset, y |-> y_pos(i),
                     x2 |-> book_x + book_width]
        all      == [j \in 1..3 |-> [i |-> j - 1, on |-> drawn(j - 1), l |-> line(j - 1)]]
        kept     == SelectSeq(all, LAMBDA e : e.on)
    IN  [j \in 1..Len(kept) |-> kept[j].l]

\* lines 16-73
create_book_icon(size, is_maskable) ==
    LET canvas       == NewImage(size)
        padding      == Padding(size, is_maskable)
        book_width   == BookWidth(size, padding)
        book_height  == BookHeight(book_width)
        book_x       == padding
        book_y       == BookY(size, book_height)
        spine_width  == IntMul(book_width, 8, 100)
        page_offset  == IntMul(book_width, 93, 100)
        line_spacing == LineSpacing(book_height)
    IN  [kind        |-> "png",
         size        |-> size,
         maskable    |-> is_maskable,
         width       |-> canvas.width,
         height      |-> canvas.height,
         background  |-> IF is_maskable THEN "ellipse" ELSE "rounded_rectangle",
         padding     |-> padding,
         book_x      |-> book_x,
         book_y      |-> book_y,
         book_width  |-> book_width,
         book_height |-> book_height,
         radius      |-> IntMul(size, 3, 100),
         spine_width |-> spine_width,
         lines       |-> PageLines(book_x, book_y, book_width, book_height,
                                   page_offset, line_spacing)]

\* lines 102-132
create_svg_icon(size, is_maskable) ==
    LET header      == SvgHeader(size)
        padding     == Padding(size, is_maskable)
        book_width  == BookWidth(size, padding)
        book_height == BookHeight(book_width)
        book_x      == padding
        book_y      == BookY(size, book_height)
        x1          == book_x + IntMul(book_width, 93, 100)
        x2          == book_x + book_width
    IN  [kind        |-> "svg",
         size        |-> size,
         maskable    |-> is_maskable,
         width       |-> header.width,
         height      |-> header.height,
         viewBox     |-> header.viewBox,
         background  |-> IF is_maskable THEN "circle" ELSE "rect",
         padding     |-> padding,
         book_x      |-> book_x,
         book_y      |-> book_y,
         book_width  |-> book_width,
         book_height |-> book_height,
         radius      |-> size \div 33,
         spine_width |-> IntMul(book_width, 8, 100),
         lines       |-> << [x1 |-> x1, y |-> book_y + IntMul(book_height, 3, 10), x2 |-> x2],
                            [x1 |-> x1, y |-> book_y + IntMul(book_height, 5, 10), x2 |-> x2],
                            [x1 |-> x1, y |-> book_y + IntMul07(book_height),      x2 |-> x2] >>]

(***************************************************************************)
(* The script.                                                             *)
(***************************************************************************)
\* lines 79-93 and 135-148: the icons in the order the script generates them
Icons ==
    << [name |-> "icon-192x192",          size |-> Size192, maskable |-> FALSE],
       [name |-> "icon-512x512",          size |-> Size512, maskable |-> FALSE],
       [name |-> "icon-maskable-192x192", size |-> Size192, maskable |-> TRUE],
       [name |-> "icon-maskable-512x512", size |-> Size512, maskable |-> TRUE] >>

NumIcons == Len(Icons)

File(i, ext, content) == [name |-> Icons[i].name, ext |-> ext, content |-> content]

\* A handler that catches every exception and starts the fallback.
CrashMut(exc) ==
    /\ fault' = exc
    /\ faultAt' = <<pc, k>>
    /\ pc' = IF pc = "makedirs" THEN "crashed" ELSE "svg_write"

\* an exception that no handler catches ends the process
Crash(exc) ==
    /\ fault' = exc
    /\ faultAt' = <<pc, k>>
    /\ pc' = "crashed"

\* line 10: os.makedirs('assets/icons', exist_ok=True)
MakeDirs ==
    /\ pc = "makedirs"
    /\ \/ /\ dir \in {"absent", "present"}
          /\ dir' = "present"
          /\ dirMade' = TRUE
          /\ pc' = "import"
          /\ UNCHANGED <<fault, faultAt>>
       \/ /\ dir \in {"absent", "file"}      \* PermissionError, FileExistsError
          /\ Crash("OSError")
          /\ UNCHANGED <<dir, dirMade>>
    /\ UNCHANGED <<k, img, written, partial, raisedAt>>
    /\ UNCHANGED geomVars

\* No handler for ImportError: the exception ends the process.
EnterFallbackMut(step) ==
    /\ raisedAt' = step
    /\ fault' = "ImportError"
    /\ faultAt' = <<pc, k>>
    /\ pc' = "crashed"
    /\ UNCHANGED <<k, img>>

\* line 98: except ImportError, entered from the step of the try body named by step
EnterFallback(step) ==
    /\ raisedAt' = step
    /\ pc' = "svg_write"
    /\ k' = 1
    /\ img' = NoImage
    /\ UNCHANGED <<fault, faultAt>>

\* line 14: from PIL import Image, ImageDraw, ImageFont
ImportPIL ==
    /\ pc = "import"
    /\ \/ /\ pc' = "create"
          /\ k' = 1
          /\ UNCHANGED <<img, raisedAt, fault, faultAt>>
       \/ EnterFallback("import")
    /\ UNCHANGED <<dir, dirMade, written, partial>>
    /\ UNCHANGED geomVars

\* lines 79, 83, 88, 92: icon = create_book_icon(size, is_maskable=...)
CreateIcon ==
    /\ pc = "create"
    /\ \/ /\ img' = create_book_icon(Icons[k].size, Icons[k].maskable)
          /\ pc' = "save"
          /\ UNCHANGED <<k, raisedAt, fault, faultAt>>
       \/ EnterFallback("create")
       \/ /\ Crash("Exception")              \* AttributeError, MemoryError, ...
          /\ UNCHANGED <<k, img, raisedAt>>
    /\ UNCHANGED <<dir, dirMade, written, partial>>
    /\ UNCHANGED geomVars

\* lines 80, 84, 89, 93: icon.save('assets/icons/<name>.png', 'PNG')
SavePng ==
    /\ pc = "save"
    /\ \/ /\ written' = Append(written, File(k, "png", img))
          /\ partial' = partial \ {<<Icons[k].name, "png">>}
          /\ img' = NoImage
          /\ IF k < NumIcons
                THEN pc' = "create" /\ k' = k + 1
                ELSE pc' = "done" /\ k' = k
          /\ UNCHANGED <<raisedAt, fault, faultAt>>
       \/ /\ EnterFallback("save")
          /\ UNCHANGED <<written, partial>>
       \/ /\ Crash("OSError")
          /\ \/ partial' = partial
             \/ partial' = partial \cup {<<Icons[k].name, "png">>}
          /\ UNCHANGED <<k, img, written, raisedAt>>
    /\ UNCHANGED <<dir, dirMade>>
    /\ UNCHANGED geomVars

\* lines 135-148: with open('assets/icons/<name>.svg', 'w') as f: f.write(create_svg_icon(...))
WriteSvg ==
    /\ pc = "svg_write"
    /\ \/ /\ written' = Append(written,
                 File(k, "svg", create_svg_icon(Icons[k].size, Icons[k].maskable)))
          /\ partial' = partial \ {<<Icons[k].name, "svg">>}
          /\ IF k < NumIcons
                THEN pc' = "svg_write" /\ k' = k + 1
                ELSE pc' = "done" /\ k' = k
          /\ UNCHANGED <<fault, faultAt>>
       \/ /\ Crash("OSError")
          /\ \/ partial' = partial
             \/ partial' = partial \cup {<<Icons[k].name, "svg">>}
          /\ UNCHANGED <<k, written>>
    /\ UNCHANGED <<dir, dirMade, img, raisedAt>>
    /\ UNCHANGED geomVars

Init ==
    /\ pc = "makedirs"
    /\ k = 0
    /\ dir \in {"absent", "present", "file"}
    /\ dirMade = FALSE
    /\ img = NoImage
    /\ written = << >>
    /\ partial = {}
    /\ fault = "none"
    /\ faultAt = << >>
    /\ raisedAt = "none"
    /\ gS = 0
    /\ gM = FALSE
    /\ gRaster = NoImage
    /\ gSvg = NoImage

Next ==
    \/ MakeDirs
    \/ ImportPIL
    \/ CreateIcon
    \/ SavePng
    \/ WriteSvg

Spec == Init /\ [][Next]_vars

(***************************************************************************)
(* The drawing routines as pure functions of their arguments.              *)
(***************************************************************************)
GeomInit ==
    /\ pc = "geom"
    /\ k = 0
    /\ dir = "absent"
    /\ dirMade = FALSE
    /\ img = NoImage
    /\ written = << >>
    /\ partial = {}
    /\ fault = "none"
    /\ faultAt = << >>
    /\ raisedAt = "none"
    /\ gS \in 1..MaxSize
    /\ gM \in BOOLEAN
    /\ gRaster = NoImage
    /\ gSvg = NoImage

CallBookIcon ==
    /\ gRaster = NoImage
    /\ gRaster' = create_book_icon(gS, gM)
    /\ UNCHANGED <<gS, gM, gSvg>>
    /\ UNCHANGED runVars

CallSvgIcon ==
    /\ gSvg = NoImage
    /\ gSvg' = create_svg_icon(gS, gM)
    /\ UNCHANGED <<gS, gM, gRaster>>
    /\ UNCHANGED runVars

GeomNext ==
    \/ CallBookIcon
    \/ CallSvgIcon

GeomSpec == GeomInit /\ [][GeomNext]_vars

(***************************************************************************)
(* Helpers for the properties.                                             *)
(***************************************************************************)
WrittenWith(ext) == {i \in 1..Len(written) : written[i].ext = ext}

\* the first n icons of the fixed order, all with extension ext
FirstFiles(n, ext) ==
    [i \in 1..n |-> [name |-> Icons[i].name, ext |-> ext]]

WrittenNames == [i \in 1..Len(written) |-> [name |-> written[i].name, ext |-> written[i].ext]]

Results == {g \in {gRaster, gSvg} : g # NoImage}

InCanvas(g) ==
    /\ 0 <= g.book_x
    /\ 0 <= g.book_y
    /\ g.book_x + g.book_width <= g.size
    /\ g.book_y + g.book_height <= g.size

InSafeZone(g) ==
    LET padding == g.size \div 5
    IN  /\ g.book_x >= padding
        /\ g.book_y >= padding
        /\ g.book_x + g.book_width <= g.size - padding
        /\ g.book_y + g.book_height <= g.size - padding

SameLayout(a, b) ==
    /\ a.book_x = b.book_x
    /\ a.book_y = b.book_y
    /\ a.book_width = b.book_width
    /\ a.book_height = b.book_height
    /\ a.spine_width = b.spine_width
    /\ a.spine_width = (8 * a.book_width) \div 100
    /\ a.lines = b.lines

(***************************************************************************)
(* C1.  When the import at the top of the try block raises ImportError the *)
(* run takes the fallback path: no PNG file is written, in whole or in     *)
(* part, the ImportError does not end the process (the only fault a        *)
(* fallback run can end with is a failed write of an SVG file), the SVG    *)
(* files are written in the fixed order, and a run that reaches its end    *)
(* has written exactly the four SVG files.                                 *)
(***************************************************************************)
C1_FallbackOnMissingLibrary ==
    raisedAt = "import" =>
        /\ WrittenWith("png") = {}
        /\ \A f \in partial : f[2] = "svg"
        /\ pc \in {"svg_write", "done", "crashed"}
        /\ fault \in {"none", "OSError"}
        /\ fault = "OSError" => faultAt[1] = "svg_write"
        /\ pc = "svg_write" => WrittenNames = FirstFiles(k - 1, "svg")
        /\ pc = "done" => fault = "none" /\ WrittenNames = FirstFiles(NumIcons, "svg")

C1_Witness ==
    /\ raisedAt = "import"
    /\ pc = "done"
    /\ fault = "none"
    /\ Len(written) = 4
    /\ WrittenWith("svg") = 1..4

(***************************************************************************)
(* C2.  No run writes at least one PNG file and at least one SVG file.     *)
(***************************************************************************)
C2_PathsExclusive ==
    ~ (WrittenWith("png") # {} /\ WrittenWith("svg") # {})

(***************************************************************************)
(* C3.  For a maskable icon the book rectangle lies inside the safe zone   *)
(* left by a padding of floor(S/5) on every side.                          *)
(***************************************************************************)
C3_BookInSafeZone ==
    \A g \in Results : g.maskable => InSafeZone(g)

(***************************************************************************)
(* C4.  The padding and the book dimensions both routines compute are the  *)
(* closed-form functions of the size S and the maskable flag:              *)
(* padding = floor(S/5) if maskable else floor(S/10),                      *)
(* book_width = S - 2*padding, book_height = floor(13*book_width/10),      *)
(* book_x = padding, book_y = floor((S - book_height)/2).                  *)
(***************************************************************************)
C4_GeometryClosedForm ==
    \A g \in Results :
        LET padding == IF gM THEN gS \div 5 ELSE gS \div 10
            bw      == gS - 2 * padding
            bh      == (13 * bw) \div 10
        IN  /\ g.padding = padding
            /\ g.book_width = bw
            /\ g.book_height = bh
            /\ g.book_x = padding
            /\ g.book_y = (gS - bh) \div 2

C4_Witness ==
    /\ gS = Size512
    /\ gM
    /\ gRaster # NoImage
    /\ gSvg # NoImage
    /\ gRaster.book_height = 400
    /\ gSvg.book_y = 56

(***************************************************************************)
(* C5.  The output is S x S on both paths: the raster image has width =    *)
(* height = S, the SVG declares width = S, height = S and viewBox          *)
(* 0 0 S S, whatever the maskable flag and the book geometry are.          *)
(***************************************************************************)
C5_CanvasIsSizeBySize ==
    /\ gRaster # NoImage => gRaster.width = gS /\ gRaster.height = gS
    /\ gSvg # NoImage =>
          /\ gSvg.width = gS
          /\ gSvg.height = gS
          /\ gSvg.viewBox = <<0, 0, gS, gS>>

C5_Witness ==
    /\ gS = Size192
    /\ ~gM
    /\ gRaster # NoImage
    /\ gSvg # NoImage
    /\ gRaster.book_height > gRaster.height
    /\ gSvg.viewBox = <<0, 0, 192, 192>>

(***************************************************************************)
(* C6.  A run that ends without a fault has created the directory and then *)
(* written exactly the four files of the fixed set, each once, in the      *)
(* fixed order, all .png or all .svg; no file is written before the        *)
(* directory is created.                                                   *)
(***************************************************************************)
C6_FourFilesInOrder ==
    /\ written # << >> => dirMade
    /\ pc = "done" =>
          /\ dirMade
          /\ \/ WrittenNames = FirstFiles(NumIcons, "png")
             \/ WrittenNames = FirstFiles(NumIcons, "svg")

(***************************************************************************)
(* C7.  A failure other than ImportError is not handled: the process ends  *)
(* at the failing step, the fallback is not started by it, and no file     *)
(* after the failing step is written; the files written before it remain.  *)
(***************************************************************************)
C7_OtherFailuresPropagate ==
    fault # "none" =>
        /\ pc = "crashed"
        /\ faultAt[1] = "makedirs" =>
              written = << >> /\ partial = {} /\ raisedAt = "none" /\ ~dirMade
        /\ faultAt[1] \in {"create", "save"} =>
              /\ raisedAt = "none"
              /\ WrittenWith("svg") = {}
              /\ \A f \in partial : f[2] = "png"
              /\ WrittenNames = FirstFiles(faultAt[2] - 1, "png")
        /\ faultAt[1] = "svg_write" =>
              /\ raisedAt # "none"
              /\ {i \in 1..Len(written) : written[i].ext = "svg"}
                    = {i \in 1..Len(written) : i > Len(written) - (faultAt[2] - 1)}
              /\ \A i \in WrittenWith("svg") :
                    written[i].name = Icons[i - (Len(written) - (faultAt[2] - 1))].name

C7_Witness ==
    /\ fault = "OSError"
    /\ faultAt = <<"save", 3>>
    /\ Len(written) = 2
    /\ pc = "crashed"

(***************************************************************************)
(* C8.  For each of the four icons the script generates, the book          *)
(* rectangle lies inside the S x S canvas.                                 *)
(***************************************************************************)
C8_BookInCanvas ==
    /\ img # NoImage => InCanvas(img)
    /\ \A i \in 1..Len(written) : InCanvas(written[i].content)

(***************************************************************************)
(* C9.  For S in {192, 512} and the same flag, create_svg_icon and         *)
(* create_book_icon place the book rectangle, the spine and the three page *)
(* lines at the same coordinates.                                          *)
(***************************************************************************)
C9_SvgMatchesRaster ==
    (gS \in {Size192, Size512} /\ gRaster # NoImage /\ gSvg # NoImage)
        => SameLayout(gRaster, gSvg)

(***************************************************************************)
(* C10.  In create_book_icon the guard of the page-line loop holds for     *)
(* each i in {0, 1, 2}: exactly three lines are drawn, the i-th at         *)
(* book_y + (i + 2) * line_spacing, each within the book rectangle.        *)
(***************************************************************************)
C10_ThreePageLines ==
    gRaster # NoImage =>
        /\ Len(gRaster.lines) = 3
        /\ \A j \in 1..Len(gRaster.lines) :
              /\ gRaster.lines[j].y = gRaster.book_y + (j + 1) * (gRaster.book_height \div 10)
              /\ gRaster.book_y <= gRaster.lines[j].y
              /\ gRaster.lines[j].y <= gRaster.book_y + gRaster.book_height

C10_Witness ==
    /\ gRaster # NoImage
    /\ gS = 1
    /\ Len(gRaster.lines) = 3
    /\ gRaster.lines[3].y = gRaster.book_y

====
